---- MODULE Spec2Model ----
(***************************************************************************)
(* DORA Analyzer: the App component (session state, the submission/draft   *)
(* store handlers, the Telegram delivery of handleFormSubmit), the         *)
(* SavedForms view (selection and edit buffer) and the report functions    *)
(* generateChartData / generatePDF of Report and SavedForms.               *)
(***************************************************************************)
EXTENDS Integers, Sequences, FiniteSets, TLC

VARIABLES
  currentView,          \* App: useState 'home'
  formData,             \* App: useState FormDataType[]
  drafts,               \* App: useState Draft[]
  currentDraft,         \* App: useState Draft | null
  providerName,         \* App: useState ''
  financialEntityName,  \* App: useState ''
  userName,             \* App: useState ''
  deliveries,           \* the invocations of handleFormSubmit, in call order
  crashed,              \* the React tree was unmounted by a render error
  selectedFormIndex,    \* SavedForms: useState number | null (0-based)
  editedAnswers,        \* SavedForms: useState Record<number, number>
  editedObservations,   \* SavedForms: useState Record<number, string>
  isEditing,            \* SavedForms: useState false
  loadedFrom,           \* SavedForms: the date of the submission the edit
                        \* buffer was last filled from by handleSelectForm, 0
                        \* while it holds its initial value
  clock,                \* number of records (submissions, drafts) created so far
  questions,            \* data: the ordered question list (a prop of the views)
  categories,           \* data: the category list (a prop of the views)
  language,             \* App: useState 'es'
  chartData,            \* the value last returned by generateChartData
  tableData,            \* the body last handed to doc.autoTable by generatePDF
  storeBefore,          \* the list the last store handler call closed over
  lastOp                \* the last store handler call, its argument, and
                        \* whether it repeats the call before it

vars == <<currentView, formData, drafts, currentDraft, providerName,
          financialEntityName, userName, deliveries, crashed,
          selectedFormIndex, editedAnswers, editedObservations, isEditing,
          loadedFrom,
          clock, questions, categories, language, chartData, tableData,
          storeBefore, lastOp>>

appVars == <<currentView, formData, drafts, currentDraft, providerName,
             financialEntityName, userName, deliveries, crashed, clock>>

savedVars ==
  <<selectedFormIndex, editedAnswers, editedObservations, isEditing, loadedFrom>>

nameVars == <<providerName, financialEntityName, userName>>

dataVars == <<questions, categories, language>>

reportVars == <<chartData, tableData>>

storeVars == <<storeBefore, lastOp>>

\* what the application's own handlers never touch
otherVars == <<dataVars, reportVars, storeVars>>

----------------------------------------------------------------------------
(* Domain data.  A text is a sequence of tokens; a placeholder is one      *)
(* token.  Every localized string is a record with an es and a pt field.   *)

Languages == {"es", "pt"}

ProviderToken == "{providerName}"
EntityToken == "{financialEntityName}"

\* the options every question offers: (integer value, localized label)
Options ==
  <<[value |-> 0, text |-> [es |-> "No", pt |-> "Nao"]],
    [value |-> 100, text |-> [es |-> "Si", pt |-> "Sim"]]>>

Question(id, categoryId, prompt) ==
  [id |-> id, categoryId |-> categoryId,
   text |-> [es |-> prompt, pt |-> <<"pt">> \o prompt],
   options |-> Options]

Category(id) ==
  [id |-> id, name |-> [es |-> <<"categoria", id>>, pt |-> <<"categoria", id>>]]

\* the lists the application itself is rendered with
StaticQuestions == <<Question(1, 1, <<ProviderToken, "?">>)>>
StaticCategories == <<Category(1)>>

----------------------------------------------------------------------------
(* Bounds and input domains *)

\* records (submissions and drafts) the form creates in one session
MaxRecords == 2
\* questions of a question list handed to the report functions
MaxQuestions == 2

Null == "null"
\* selectedFormIndex is number | null; null is kept apart from every index
NullIndex == 0 - 1

Views == {"home", "form", "report", "savedForms", "drafts"}

\* names the user can enter on the home view, and a form can put in a record
Providers == {<<"p1">>}
Entities == {<<"e1">>}
Users == {<<"u1">>}

AnswerValues == {Options[i].value : i \in 1..Len(Options)}
ObservationTexts == {"obs"}

EmptyMap == <<>>

\* a JS object spread with one overridden key: { ...obj, [key]: value }
Put(obj, key, value) ==
  [k \in (DOMAIN obj) \cup {key} |-> IF k = key THEN value ELSE obj[k]]

\* every object with keys among `keys` and values among `values`
PartialMaps(keys, values) == UNION {[d -> values] : d \in SUBSET keys}

\* question ids of the list the application is rendered with
QIds == {StaticQuestions[i].id : i \in 1..Len(StaticQuestions)}

\* what a form hands over: every question answered with the top option, or
\* (a draft) nothing answered yet; no observation
FormAnswers == {[q \in QIds |-> 100]}
FormObservations == {EmptyMap}
DraftAnswers == {EmptyMap}

----------------------------------------------------------------------------
(* Array helpers *)

RECURSIVE FilterSeq(_, _)
\* Array.prototype.filter with the predicate "date # key"
FilterSeq(s, key) ==
  IF s = <<>> THEN <<>>
  ELSE IF Head(s).date # key
       THEN <<Head(s)>> \o FilterSeq(Tail(s), key)
       ELSE FilterSeq(Tail(s), key)

----------------------------------------------------------------------------
(* App: the store handlers, as the value each hands to its state setter *)

RECURSIVE MapReplace(_, _)
\* formData.map(form => form.date === updatedForm.date ? updatedForm : form)
MapReplace(fd, updatedForm) ==
  IF fd = <<>> THEN <<>>
  ELSE <<IF Head(fd).date = updatedForm.date THEN updatedForm ELSE Head(fd)>>
       \o MapReplace(Tail(fd), updatedForm)

\* variant: the updated form is added to the list instead of replacing its entry
appendUpdatedForm(fd, updatedForm) == Append(fd, updatedForm)

\* variant: an update of an unknown key inserts the form
upsertForm(fd, updatedForm) ==
  IF \E i \in 1..Len(fd) : fd[i].date = updatedForm.date
  THEN MapReplace(fd, updatedForm)
  ELSE Append(fd, updatedForm)

\* handleUpdateForm: setFormData(formData.map(...))
handleUpdateForm(fd, updatedForm) == MapReplace(fd, updatedForm)

RECURSIVE KeepSeq(_, _)
KeepSeq(s, key) ==
  IF s = <<>> THEN <<>>
  ELSE IF Head(s).date = key
       THEN <<Head(s)>> \o KeepSeq(Tail(s), key)
       ELSE KeepSeq(Tail(s), key)

\* variant: the filter keeps the matching entries (=== for !==)
keepOnlyForm(fd, dateToDelete) == KeepSeq(fd, dateToDelete)

\* handleDeleteForm: setFormData(formData.filter(form => form.date !== dateToDelete))
handleDeleteForm(fd, dateToDelete) == FilterSeq(fd, dateToDelete)

\* handleDeleteDraft: setDrafts(drafts.filter(draft => draft.date !== date))
handleDeleteDraft(ds, date) == FilterSeq(ds, date)

\* variant: the new submission is put in front ([data, ...formData])
prependSubmission(fd, data) == <<data>> \o fd

\* handleFormSubmit, line 48: setFormData([...formData, data])
appendSubmission(fd, data) == Append(fd, data)

----------------------------------------------------------------------------
(* Report / SavedForms: generateChartData *)

\* answers[id] || 0: an absent key reads undefined, which is falsy, as is 0
OrZero(answers, id) ==
  IF id \in DOMAIN answers /\ answers[id] # 0 THEN answers[id] ELSE 0

RECURSIVE categoryQuestionsOf(_, _)
\* questions.filter((q) => q.categoryId === category.id)
categoryQuestionsOf(qs, category) ==
  IF qs = <<>> THEN <<>>
  ELSE IF Head(qs).categoryId = category.id
       THEN <<Head(qs)>> \o categoryQuestionsOf(Tail(qs), category)
       ELSE categoryQuestionsOf(Tail(qs), category)

RECURSIVE categoryScoresAnswered(_, _)
\* variant: unanswered questions are left out of the average
categoryScoresAnswered(qs, selectedData) ==
  IF qs = <<>> THEN <<>>
  ELSE IF Head(qs).id \in DOMAIN selectedData.answers
       THEN <<selectedData.answers[Head(qs).id]>>
            \o categoryScoresAnswered(Tail(qs), selectedData)
       ELSE categoryScoresAnswered(Tail(qs), selectedData)

RECURSIVE categoryScoresOf(_, _)
\* categoryQuestions.map((q) => selectedData.answers[q.id] || 0)
categoryScoresOf(qs, selectedData) ==
  IF qs = <<>> THEN <<>>
  ELSE <<OrZero(selectedData.answers, Head(qs).id)>>
       \o categoryScoresOf(Tail(qs), selectedData)

RECURSIVE reduceSum(_, _)
\* categoryScores.reduce((sum, score) => sum + score, 0)
reduceSum(scores, sum) ==
  IF scores = <<>> THEN sum ELSE reduceSum(Tail(scores), sum + Head(scores))

\* a / b on numbers, kept exact as a fraction; 0 / 0 is NaN
Divide(a, b) == [num |-> a, den |-> b]

\* the callback of the data: categories.map(...)
categoryScore(qs, category, selectedData) ==
  LET categoryScores ==
        categoryScoresOf(categoryQuestionsOf(qs, category), selectedData)
  IN Divide(reduceSum(categoryScores, 0), Len(categoryScores))

RECURSIVE mapCategories(_, _, _, _)
mapCategories(cats, qs, selectedData, lang) ==
  IF cats = <<>> THEN [labels |-> <<>>, data |-> <<>>]
  ELSE LET rest == mapCategories(Tail(cats), qs, selectedData, lang) IN
       [labels |-> <<Head(cats).name[lang]>> \o rest.labels,
        data |-> <<categoryScore(qs, Head(cats), selectedData)>> \o rest.data]

\* generateChartData(selectedData): labels and datasets[0].data
generateChartData(selectedData, qs, cats, lang) ==
  mapCategories(cats, qs, selectedData, lang)

NoChart == [labels |-> <<>>, data |-> <<>>]

----------------------------------------------------------------------------
(* Report / SavedForms: the table of generatePDF *)

RECURSIVE IndexOf(_, _, _)
\* the first position of token pat in str at or after i; 0 when there is none
IndexOf(str, pat, i) ==
  IF i > Len(str) THEN 0
  ELSE IF str[i] = pat THEN i ELSE IndexOf(str, pat, i + 1)

RECURSIVE Expand(_, _)
\* a replacement string: "$&" stands for the matched text
Expand(replacement, pat) ==
  IF replacement = <<>> THEN <<>>
  ELSE <<IF Head(replacement) = "$&" THEN pat ELSE Head(replacement)>>
       \o Expand(Tail(replacement), pat)

\* String.prototype.replace(pat, replacement) with a string pattern:
\* the first occurrence only
Replace(str, pat, replacement) ==
  LET i == IndexOf(str, pat, 1) IN
  IF i = 0 THEN str
  ELSE SubSeq(str, 1, i - 1) \o Expand(replacement, pat)
       \o SubSeq(str, i + 1, Len(str))

RECURSIVE Find(_, _, _)
\* q.options.find((opt) => opt.value === answers[q.id])?.text[language] || ''
Find(opts, answers, id) ==
  IF opts = <<>> \/ id \notin DOMAIN answers THEN <<>>
  ELSE IF Head(opts).value = answers[id] THEN <<Head(opts)>>
       ELSE Find(Tail(opts), answers, id)

answerLabel(q, selectedForm, lang) ==
  LET found == Find(q.options, selectedForm.answers, q.id) IN
  IF found = <<>> THEN "" ELSE found[1].text[lang]

\* selectedForm.observations[q.id] || ''
observationOf(q, selectedForm) ==
  IF q.id \in DOMAIN selectedForm.observations
  THEN selectedForm.observations[q.id] ELSE ""

\* one element of tableData
tableRow(q, selectedForm, lang) ==
  <<Replace(Replace(q.text[lang], ProviderToken, selectedForm.providerName),
            EntityToken, selectedForm.financialEntityName),
    answerLabel(q, selectedForm, lang),
    observationOf(q, selectedForm)>>

RECURSIVE tableDataOf(_, _, _)
\* questions.map((q) => [...])
tableDataOf(qs, selectedForm, lang) ==
  IF qs = <<>> THEN <<>>
  ELSE <<tableRow(Head(qs), selectedForm, lang)>>
       \o tableDataOf(Tail(qs), selectedForm, lang)

----------------------------------------------------------------------------
(* Rendering: which component is mounted, and whether its render throws *)

\* SavedForms' useState initial values (a fresh mount)
SavedFormsMounted ==
  /\ selectedFormIndex' = NullIndex
  /\ editedAnswers' = EmptyMap
  /\ editedObservations' = EmptyMap
  /\ isEditing' = FALSE
  /\ loadedFrom' = 0

\* App's conditional rendering unmounts SavedForms whenever currentView leaves
\* 'savedForms'; its state is created anew by the next mount
Remount(view) ==
  IF currentView = "savedForms" /\ view = "savedForms"
  THEN UNCHANGED savedVars
  ELSE SavedFormsMounted

\* SavedForms' render reads formData[selectedFormIndex].answers (chart data)
\* and .providerName (prompts) once per question of a category; with an index
\* past the end the element is undefined and the read throws
RenderThrows(fd, sel) ==
  /\ sel # NullIndex
  /\ sel >= Len(fd)
  /\ \E c \in 1..Len(categories), q \in 1..Len(questions) :
       questions[q].categoryId = categories[c].id

Interactive == ~crashed

----------------------------------------------------------------------------
(* Menu and Home *)

\* Menu: onClick={() => setCurrentView(item.view)}
setCurrentView(view) ==
  /\ Interactive
  /\ currentView' = view
  /\ Remount(view)
  /\ UNCHANGED <<otherVars, formData, drafts, currentDraft, nameVars, deliveries,
                 crashed, clock>>

handleStartQuestionnaire(p, e, u) ==
  /\ Interactive
  /\ currentView = "home"
  /\ providerName' = p
  /\ financialEntityName' = e
  /\ userName' = u
  /\ currentView' = "form"
  /\ Remount("form")
  /\ UNCHANGED <<otherVars, formData, drafts, currentDraft, deliveries, crashed, clock>>

----------------------------------------------------------------------------
(* Form: the record handed to onSubmit / onSaveDraft.  The form is given   *)
(* the names as props and stamps each record it creates with its creation *)
(* timestamp, the identity key.                                           *)

NewRecord(p, e, u, answers, observations) ==
  [providerName |-> p,
   financialEntityName |-> e,
   userName |-> u,
   date |-> clock + 1,
   answers |-> answers,
   observations |-> observations]

----------------------------------------------------------------------------
(* handleFormSubmit: one invocation per submit, suspended at its awaits *)

\* the invocation after line 50 threw: the async function's promise rejects
Thrown(data) ==
  [data |-> data, pdf |-> "threw", sendMessage |-> "none",
   sendDocument |-> "none", promise |-> "rejected", console |-> "none"]

\* variant: both requests are started at once
PostingBoth(data) ==
  [data |-> data, pdf |-> "ok", sendMessage |-> "pending",
   sendDocument |-> "pending", promise |-> "pending", console |-> "none"]

\* the invocation suspended at the first await (line 55)
AwaitingMessage(data) ==
  [data |-> data, pdf |-> "ok", sendMessage |-> "pending",
   sendDocument |-> "none", promise |-> "pending", console |-> "none"]

\* lines 47-55: store the submission, render the PDF, post the text message
handleFormSubmit(data, pdf) ==
  /\ Interactive
  /\ currentView = "form"
  /\ clock < MaxRecords
  /\ formData' = appendSubmission(formData, data)
  /\ deliveries' = Append(deliveries,
                     IF pdf = "threw" THEN Thrown(data)
                     ELSE AwaitingMessage(data))
  /\ clock' = clock + 1
  /\ UNCHANGED <<otherVars, currentView, drafts, currentDraft, nameVars, crashed, savedVars>>

\* lines 55-64: sendMessage resolved; build the multipart body, post the document
sendMessageResolved(i) ==
  /\ i \in 1..Len(deliveries)
  /\ deliveries[i].sendMessage = "pending"
  /\ deliveries' = [deliveries EXCEPT ![i].sendMessage = "resolved",
                                      ![i].sendDocument = "pending"]
  /\ UNCHANGED <<otherVars, currentView, formData, drafts, currentDraft, nameVars,
                 crashed, clock, savedVars>>

\* lines 72-74: the catch block, console.error only
catchBlock(d) == [d EXCEPT !.console = "error", !.promise = "fulfilled"]

\* variant: the catch block takes the submission back out of the list
sendMessageRejectedRollback(i) ==
  /\ i \in 1..Len(deliveries)
  /\ deliveries[i].sendMessage = "pending"
  /\ deliveries' = [deliveries EXCEPT
                      ![i] = catchBlock([@ EXCEPT !.sendMessage = "rejected"])]
  /\ formData' = handleDeleteForm(formData, deliveries[i].data.date)
  /\ UNCHANGED <<otherVars, currentView, drafts, currentDraft, nameVars,
                 crashed, clock, savedVars>>

sendMessageRejected(i) ==
  /\ i \in 1..Len(deliveries)
  /\ deliveries[i].sendMessage = "pending"
  /\ deliveries' = [deliveries EXCEPT
                      ![i] = catchBlock([@ EXCEPT !.sendMessage = "rejected"])]
  /\ UNCHANGED <<otherVars, currentView, formData, drafts, currentDraft, nameVars,
                 crashed, clock, savedVars>>

\* variant: the continuation opens the report only when the form is still shown
sendDocumentResolvedOnForm(i) ==
  /\ i \in 1..Len(deliveries)
  /\ deliveries[i].sendDocument = "pending"
  /\ deliveries' = [deliveries EXCEPT ![i].sendDocument = "resolved",
                                      ![i].console = "log",
                                      ![i].promise = "fulfilled"]
  /\ IF currentView = "form"
     THEN currentView' = "report" /\ Remount("report")
     ELSE UNCHANGED <<currentView, savedVars>>
  /\ UNCHANGED <<otherVars, formData, drafts, currentDraft, nameVars, crashed, clock>>

\* lines 64-71: sendDocument resolved; console.log, setCurrentView('report'),
\* called with no condition on the view shown or on what is still rendered
sendDocumentResolved(i) ==
  /\ i \in 1..Len(deliveries)
  /\ deliveries[i].sendDocument = "pending"
  /\ deliveries' = [deliveries EXCEPT ![i].sendDocument = "resolved",
                                      ![i].console = "log",
                                      ![i].promise = "fulfilled"]
  /\ currentView' = "report"
  /\ Remount("report")
  /\ UNCHANGED <<otherVars, formData, drafts, currentDraft, nameVars, crashed, clock>>

sendDocumentRejected(i) ==
  /\ i \in 1..Len(deliveries)
  /\ deliveries[i].sendDocument = "pending"
  /\ deliveries' = [deliveries EXCEPT
                      ![i] = catchBlock([@ EXCEPT !.sendDocument = "rejected"])]
  /\ UNCHANGED <<otherVars, currentView, formData, drafts, currentDraft, nameVars,
                 crashed, clock, savedVars>>

----------------------------------------------------------------------------
(* Drafts *)

handleSaveDraft(draft) ==
  /\ Interactive
  /\ currentView = "form"
  /\ clock < MaxRecords
  /\ drafts' = Append(drafts, draft)
  /\ clock' = clock + 1
  /\ currentView' = "drafts"
  /\ Remount("drafts")
  /\ UNCHANGED <<otherVars, formData, currentDraft, nameVars, deliveries, crashed>>

handleContinueDraft(i) ==
  /\ Interactive
  /\ currentView = "drafts"
  /\ i \in 1..Len(drafts)
  /\ currentDraft' = drafts[i]
  /\ currentView' = "form"
  /\ Remount("form")
  /\ UNCHANGED <<otherVars, formData, drafts, nameVars, deliveries, crashed, clock>>

deleteDraft(i) ==
  /\ Interactive
  /\ currentView = "drafts"
  /\ i \in 1..Len(drafts)
  /\ drafts' = handleDeleteDraft(drafts, drafts[i].date)
  /\ UNCHANGED <<otherVars, currentView, formData, currentDraft, nameVars, deliveries,
                 crashed, clock, savedVars>>

----------------------------------------------------------------------------
(* SavedForms *)

InSavedForms == Interactive /\ currentView = "savedForms"

handleSelectForm(index) ==
  /\ InSavedForms
  /\ index \in 0..(Len(formData) - 1)
  /\ selectedFormIndex' = index
  /\ editedAnswers' = formData[index + 1].answers
  /\ editedObservations' = formData[index + 1].observations
  /\ isEditing' = FALSE
  /\ loadedFrom' = formData[index + 1].date
  /\ UNCHANGED <<otherVars, appVars>>

handleEditToggle ==
  /\ InSavedForms
  /\ selectedFormIndex # NullIndex
  /\ isEditing' = ~isEditing
  /\ UNCHANGED <<otherVars, appVars, selectedFormIndex, editedAnswers,
                 editedObservations, loadedFrom>>

handleAnswerChange(questionId, value) ==
  /\ InSavedForms
  /\ selectedFormIndex # NullIndex
  /\ isEditing
  /\ editedAnswers' = Put(editedAnswers, questionId, value)
  /\ UNCHANGED <<otherVars, appVars, selectedFormIndex, editedObservations,
                 isEditing, loadedFrom>>

handleObservationChange(questionId, value) ==
  /\ InSavedForms
  /\ selectedFormIndex # NullIndex
  /\ isEditing
  /\ editedObservations' = Put(editedObservations, questionId, value)
  /\ UNCHANGED <<otherVars, appVars, selectedFormIndex, editedAnswers,
                 isEditing, loadedFrom>>

\* variant: the object is built without the spread, so the names are lost
updatedFormNoSpread(fd, sel, answers, observations) ==
  [providerName |-> <<>>, financialEntityName |-> <<>>, userName |-> <<>>,
   date |-> fd[sel + 1].date, answers |-> answers,
   observations |-> observations]

\* lines 47-51: { ...formData[selectedFormIndex], answers, observations }
updatedFormOf(fd, sel, answers, observations) ==
  [fd[sel + 1] EXCEPT !.answers = answers, !.observations = observations]

handleSaveChanges ==
  /\ InSavedForms
  /\ selectedFormIndex # NullIndex
  /\ isEditing
  /\ formData' = handleUpdateForm(formData,
                   updatedFormOf(formData, selectedFormIndex,
                                 editedAnswers, editedObservations))
  /\ isEditing' = FALSE
  /\ UNCHANGED <<otherVars, currentView, drafts, currentDraft, nameVars, deliveries,
                 crashed, clock, selectedFormIndex, editedAnswers,
                 editedObservations, loadedFrom>>

\* the delete button: onDeleteForm(formData[selectedFormIndex].date), and the
\* render that follows with the selection SavedForms keeps
deleteSelected ==
  /\ InSavedForms
  /\ selectedFormIndex # NullIndex
  /\ formData' = handleDeleteForm(formData, formData[selectedFormIndex + 1].date)
  /\ crashed' = RenderThrows(formData', selectedFormIndex)
  /\ UNCHANGED <<otherVars, currentView, drafts, currentDraft, nameVars, deliveries,
                 clock, savedVars>>

----------------------------------------------------------------------------
(* The application *)

NoOp == [op |-> "none", arg |-> 0, again |-> FALSE]

Init ==
  /\ currentView = "home"
  /\ formData = <<>>
  /\ drafts = <<>>
  /\ currentDraft = Null
  /\ providerName = <<>>
  /\ financialEntityName = <<>>
  /\ userName = <<>>
  /\ deliveries = <<>>
  /\ crashed = FALSE
  /\ selectedFormIndex = NullIndex
  /\ editedAnswers = EmptyMap
  /\ editedObservations = EmptyMap
  /\ isEditing = FALSE
  /\ loadedFrom = 0
  /\ clock = 0
  /\ questions = StaticQuestions
  /\ categories = StaticCategories
  /\ language = "es"
  /\ chartData = NoChart
  /\ tableData = <<>>
  /\ storeBefore = <<>>
  /\ lastOp = NoOp

Next ==
  \/ \E view \in Views : setCurrentView(view)
  \/ \E p \in Providers, e \in Entities, u \in Users :
       handleStartQuestionnaire(p, e, u)
  \/ \E p \in Providers, e \in Entities, u \in Users, a \in FormAnswers,
        o \in FormObservations, pdf \in {"ok", "threw"} :
       handleFormSubmit(NewRecord(p, e, u, a, o), pdf)
  \/ \E i \in 1..MaxRecords : sendMessageResolved(i)
  \/ \E i \in 1..MaxRecords : sendMessageRejected(i)
  \/ \E i \in 1..MaxRecords : sendDocumentResolved(i)
  \/ \E i \in 1..MaxRecords : sendDocumentRejected(i)
  \/ \E p \in Providers, e \in Entities, u \in Users, a \in DraftAnswers,
        o \in FormObservations :
       handleSaveDraft(NewRecord(p, e, u, a, o))
  \/ \E i \in 1..MaxRecords : handleContinueDraft(i)
  \/ \E i \in 1..MaxRecords : deleteDraft(i)
  \/ \E index \in 0..(MaxRecords - 1) : handleSelectForm(index)
  \/ handleEditToggle
  \/ \E q \in QIds, v \in AnswerValues : handleAnswerChange(q, v)
  \/ \E q \in QIds, t \in ObservationTexts : handleObservationChange(q, t)
  \/ handleSaveChanges
  \/ deleteSelected

Spec == Init /\ [][Next]_vars

----------------------------------------------------------------------------
(* The report functions on their own: a view rendered with a question      *)
(* list, two categories and one stored submission                          *)

CategoryIds == {1, 2}

\* prompts with no, one of each, and a repeated placeholder
Prompts ==
  {<<"?">>, <<ProviderToken, EntityToken>>, <<ProviderToken, ProviderToken>>}

\* question lists of length n: ids 1..n in list order
QuestionLists(n) ==
  {[i \in 1..n |-> Question(i, f[i].c, f[i].p)] :
     f \in [1..n -> [c : CategoryIds, p : Prompts]]}

ReportQuestions == UNION {QuestionLists(n) : n \in 1..MaxQuestions}

ReportForms ==
  [providerName : Providers \cup {<<"$&">>},
   financialEntityName : Entities,
   userName : Users,
   date : {1},
   answers : PartialMaps(1..MaxQuestions, AnswerValues),
   observations : PartialMaps({1}, ObservationTexts)]

InitReport ==
  /\ currentView = "report"
  /\ formData \in {<<f>> : f \in ReportForms}
  /\ drafts = <<>>
  /\ currentDraft = Null
  /\ providerName = <<>>
  /\ financialEntityName = <<>>
  /\ userName = <<>>
  /\ deliveries = <<>>
  /\ crashed = FALSE
  /\ selectedFormIndex = 0
  /\ editedAnswers = EmptyMap
  /\ editedObservations = EmptyMap
  /\ isEditing = FALSE
  /\ loadedFrom = 0
  /\ clock = 1
  /\ questions \in ReportQuestions
  /\ categories = <<Category(1), Category(2)>>
  /\ language \in Languages
  /\ chartData = NoChart
  /\ tableData = <<>>
  /\ storeBefore = <<>>
  /\ lastOp = NoOp

\* the render of Report / SavedForms: the chart of the selected submission
renderChart ==
  /\ chartData' = generateChartData(formData[selectedFormIndex + 1],
                                    questions, categories, language)
  /\ UNCHANGED <<appVars, savedVars, dataVars, storeVars, tableData>>

\* the 'Generar PDF' button: generatePDF up to doc.autoTable
generatePDF ==
  /\ tableData' = tableDataOf(questions, formData[selectedFormIndex + 1], language)
  /\ UNCHANGED <<appVars, savedVars, dataVars, storeVars, chartData>>

NextReport ==
  \/ renderChart
  \/ generatePDF

SpecReport == InitReport /\ [][NextReport]_vars

----------------------------------------------------------------------------
(* The store handlers on their own: any submission list, any argument *)

StoreDates == 1..(MaxRecords + 1)

StoreForms ==
  [providerName : Providers,
   financialEntityName : Entities,
   userName : Users,
   date : StoreDates,
   answers : {EmptyMap} \cup FormAnswers,
   observations : {EmptyMap}]

StoreLists == UNION {[1..n -> StoreForms] : n \in 0..MaxRecords}

InitStore ==
  /\ currentView = "savedForms"
  /\ formData \in StoreLists
  /\ drafts = <<>>
  /\ currentDraft = Null
  /\ providerName = <<>>
  /\ financialEntityName = <<>>
  /\ userName = <<>>
  /\ deliveries = <<>>
  /\ crashed = FALSE
  /\ selectedFormIndex = NullIndex
  /\ editedAnswers = EmptyMap
  /\ editedObservations = EmptyMap
  /\ isEditing = FALSE
  /\ loadedFrom = 0
  /\ clock = 0
  /\ questions = StaticQuestions
  /\ categories = StaticCategories
  /\ language = "es"
  /\ chartData = NoChart
  /\ tableData = <<>>
  /\ storeBefore = formData
  /\ lastOp = NoOp

StoreFrame ==
  UNCHANGED <<currentView, drafts, currentDraft, nameVars, deliveries, crashed,
              clock, savedVars, dataVars, reportVars>>

callUpdateForm(updatedForm) ==
  /\ formData' = handleUpdateForm(formData, updatedForm)
  /\ storeBefore' = formData
  /\ lastOp' = [op |-> "update", arg |-> updatedForm,
                again |-> lastOp.op = "update" /\ lastOp.arg = updatedForm]
  /\ StoreFrame

callDeleteForm(dateToDelete) ==
  /\ formData' = handleDeleteForm(formData, dateToDelete)
  /\ storeBefore' = formData
  /\ lastOp' = [op |-> "delete", arg |-> dateToDelete,
                again |-> lastOp.op = "delete" /\ lastOp.arg = dateToDelete]
  /\ StoreFrame

NextStore ==
  \/ \E updatedForm \in StoreForms : callUpdateForm(updatedForm)
  \/ \E dateToDelete \in StoreDates : callDeleteForm(dateToDelete)

SpecStore == InitStore /\ [][NextStore]_vars

----------------------------------------------------------------------------
(* Properties *)

RECURSIVE SumOver(_, _)
\* the sum of f over a finite set
SumOver(set, f) ==
  IF set = {} THEN 0
  ELSE LET x == CHOOSE y \in set : TRUE IN f[x] + SumOver(set \ {x}, f)

\* the submission a report view shows
Selected == formData[selectedFormIndex + 1]

\* positions of the questions owned by the category at position c
OwnedBy(c) ==
  {i \in 1..Len(questions) : questions[i].categoryId = categories[c].id}

\* S's answer value for the question at position i, a missing entry counting 0
ValueAt(S) ==
  [i \in 1..Len(questions) |->
     IF questions[i].id \in DOMAIN S.answers THEN S.answers[questions[i].id]
     ELSE 0]

InRange(S) == \A k \in DOMAIN S.answers : S.answers[k] >= 0 /\ S.answers[k] <= 100

ChartRendered == Len(chartData.data) > 0

\* C1: for every category C owning n > 0 questions, the score generateChartData
\* computes for C is (sum of the submission's answer values over C's questions,
\* a missing answer counting 0) / n, and is in [0, 100] when every answer value is.
C1_CategoryScoreIsMean ==
  ChartRendered =>
    /\ Len(chartData.data) = Len(categories)
    /\ \A c \in 1..Len(categories) :
         LET n == Cardinality(OwnedBy(c))
             total == SumOver(OwnedBy(c), ValueAt(Selected))
             score == chartData.data[c]
         IN n > 0 =>
              /\ score.den # 0
              /\ score.num * n = total * score.den
              /\ InRange(Selected) =>
                   (score.num >= 0 /\ score.num <= 100 * score.den)

\* C1 witness: a chart with a category of two questions, one of them
\* unanswered, whose score is 100 / 2
C1_Witness ==
  /\ ChartRendered
  /\ \E c \in 1..Len(categories) :
       /\ Cardinality(OwnedBy(c)) = 2
       /\ \E i \in OwnedBy(c) : questions[i].id \notin DOMAIN Selected.answers
       /\ chartData.data[c] = Divide(100, 2)

\* a delivery call of invocation i is rejected in this step
RejectedNow(i) ==
  /\ deliveries[i].promise = "pending"
  /\ \/ deliveries'[i].sendMessage = "rejected"
     \/ deliveries'[i].sendDocument = "rejected"

Contains(fd, date) == \E j \in 1..Len(fd) : fd[j].date = date

\* everything the rendered page is computed from
Visible ==
  <<currentView, formData, drafts, currentDraft, nameVars, savedVars,
    language, crashed>>

\* C2: when either delivery call of handleFormSubmit rejects, the submission
\* list still contains the new submission, the rejection is caught (the handler
\* does not fail), and the user-visible state shows a failure notice.
C2_RejectionShowsNotice ==
  [][\A i \in 1..Len(deliveries) :
       RejectedNow(i) =>
         /\ Contains(formData, deliveries[i].data.date)
              => Contains(formData', deliveries[i].data.date)
         /\ deliveries'[i].promise = "fulfilled"
         /\ Visible' # Visible]_vars

\* C3: generatePDF throwing during handleFormSubmit is caught like a network
\* failure: the handler ends in the catch block's outcome instead of
\* propagating the exception, and the submission is retained.
C3_RenderFailureCaught ==
  \A i \in 1..Len(deliveries) :
    deliveries[i].pdf = "threw" =>
      /\ deliveries[i].promise = "fulfilled"
      /\ deliveries[i].console = "error"

\* the record handed to handleFormSubmit with this creation timestamp
AsAdded(date) ==
  LET i == CHOOSE i \in 1..Len(deliveries) : deliveries[i].data.date = date
  IN deliveries[i].data

\* C4: once a submission has been added, then selected, edited and saved in
\* SavedForms, the stored submission with that creation timestamp has exactly
\* the edited answers and observations, and the providerName,
\* financialEntityName, userName and date it was added with.
C4_RoundTrip ==
  [][handleSaveChanges =>
       LET key == formData[selectedFormIndex + 1].date IN
       /\ Contains(formData', key)
       /\ \A j \in 1..Len(formData') :
            formData'[j].date = key =>
              /\ formData'[j].answers = editedAnswers
              /\ formData'[j].observations = editedObservations
              /\ formData'[j].providerName = AsAdded(key).providerName
              /\ formData'[j].financialEntityName
                   = AsAdded(key).financialEntityName
              /\ formData'[j].userName = AsAdded(key).userName]_vars

\* C4 witness: a stored submission, added with names, whose answers and
\* observations are no longer the submitted ones
C4_Witness ==
  \E j \in 1..Len(formData) :
    /\ formData[j].answers # AsAdded(formData[j].date).answers
    /\ formData[j].observations # AsAdded(formData[j].date).observations
    /\ formData[j].providerName # <<>>
    /\ formData[j].providerName = AsAdded(formData[j].date).providerName

\* C5: handleUpdateForm is idempotent: the same update applied a second time
\* in a row leaves the submission list as the first application left it.
C5_UpdateIdempotent ==
  (lastOp.op = "update" /\ lastOp.again) => formData = storeBefore

\* C5 witness: a repeated update whose key is in the list
C5_Witness ==
  /\ lastOp.op = "update"
  /\ lastOp.again
  /\ \E i \in 1..Len(formData) : formData[i] = lastOp.arg
  /\ Len(formData) > 1

\* C6: handleDeleteForm(k) leaves no submission with key k, and a second
\* handleDeleteForm(k), or a delete of any absent key, leaves the list unchanged.
C6_DeleteRemovesAndRepeats ==
  lastOp.op = "delete" =>
    /\ ~Contains(formData, lastOp.arg)
    /\ ~Contains(storeBefore, lastOp.arg) => formData = storeBefore
    /\ lastOp.again => formData = storeBefore

\* C6 witness: a second delete of the same key on a list that is not empty
C6_Witness ==
  /\ lastOp.op = "delete"
  /\ lastOp.again
  /\ formData # <<>>

\* C7: handleUpdateForm(s) with a key matching no stored submission leaves the
\* list as it was (same elements, same order, s not inserted); with a matching
\* key, the submissions with that key are replaced by s and every other
\* submission and the order are unchanged.
C7_UpdateFrame ==
  lastOp.op = "update" =>
    /\ Len(formData) = Len(storeBefore)
    /\ \A i \in 1..Len(storeBefore) :
         formData[i] = IF storeBefore[i].date = lastOp.arg.date
                       THEN lastOp.arg ELSE storeBefore[i]
    /\ ~Contains(storeBefore, lastOp.arg.date) => formData = storeBefore

\* C7 witness: an update with an unknown key on a list of two submissions
C7_Witness ==
  /\ lastOp.op = "update"
  /\ ~Contains(storeBefore, lastOp.arg.date)
  /\ Len(storeBefore) = 2

\* the position of the submit that created the record with this timestamp
SubmitOrder(date) ==
  CHOOSE i \in 1..Len(deliveries) : deliveries[i].data.date = date

\* C8: a submit appends the new submission at the end and leaves the earlier
\* entries in place; after any sequence of submits, updates and deletes the
\* surviving submissions are listed in the order they were submitted.
C8_SubmissionOrder ==
  /\ [](\A i, j \in 1..Len(formData) :
          i < j => SubmitOrder(formData[i].date) < SubmitOrder(formData[j].date))
  /\ [][Len(deliveries') = Len(deliveries) + 1 =>
          /\ Len(formData') = Len(formData) + 1
          /\ SubSeq(formData', 1, Len(formData)) = formData
          /\ formData'[Len(formData')] = deliveries'[Len(deliveries')].data]_vars

\* C8 witness: two submissions stored, the older one edited, after a delivery
C8_Witness ==
  /\ Len(formData) = 2
  /\ formData[1].answers # AsAdded(formData[1].date).answers
  /\ formData[2].date = deliveries[Len(deliveries)].data.date

\* C9: delivery is two sequential calls: sendDocument is started only once
\* sendMessage has resolved, and never when sendMessage rejected.
C9_MessageThenDocument ==
  \A i \in 1..Len(deliveries) :
    /\ deliveries[i].sendDocument # "none" => deliveries[i].sendMessage = "resolved"
    /\ deliveries[i].sendMessage = "rejected" => deliveries[i].sendDocument = "none"

\* C9 witness: one submit whose text message was rejected, another whose
\* document upload is under way
C9_Witness ==
  \E i, j \in 1..Len(deliveries) :
    /\ deliveries[i].sendMessage = "rejected"
    /\ deliveries[j].sendDocument = "pending"

\* both delivery calls of invocation i have resolved with this step
ResolvedNow(i) ==
  /\ deliveries[i].promise = "pending"
  /\ deliveries'[i].sendMessage = "resolved"
  /\ deliveries'[i].sendDocument = "resolved"

\* C11: handleFormSubmit sets the current view to 'report' when, and only
\* when, both delivery calls of a submit have resolved, whatever view is
\* shown at that moment; a rejected delivery call, like every other step of
\* handleFormSubmit, leaves the current view as it is.
C11_DeliveryDecidesView ==
  [][/\ \A i \in 1..Len(deliveries) :
          /\ ResolvedNow(i) => currentView' = "report"
          /\ RejectedNow(i) => currentView' = currentView
     /\ (deliveries' # deliveries /\ currentView' # currentView) =>
          \E i \in 1..Len(deliveries) : ResolvedNow(i)]_vars

\* C11 witness: the document upload of a submit is in flight while the user,
\* having left the form, is editing a stored submission in SavedForms
C11_Witness ==
  /\ currentView = "savedForms"
  /\ isEditing
  /\ \E i \in 1..Len(deliveries) : deliveries[i].sendDocument = "pending"

\* C12: in the SavedForms view, after any sequence of select, edit, save and
\* delete actions, the selected index is null or a valid index into the
\* current submission list, so the render never reads a submission that does
\* not exist.
C12_SelectionValid ==
  /\ currentView = "savedForms" =>
       \/ selectedFormIndex = NullIndex
       \/ selectedFormIndex \in 0..(Len(formData) - 1)
  /\ ~crashed

\* C13: handleSaveChanges writes the edit buffer only into the submission it
\* was loaded from by handleSelectForm: a save changes no stored submission
\* other than the one whose answers and observations filled the buffer.
C13_SaveWritesLoaded ==
  [][handleSaveChanges =>
       \A j \in 1..Len(formData) :
         formData'[j] # formData[j] => formData[j].date = loadedFrom]_vars

RECURSIVE Without(_, _)
\* the list with every record of this date taken out, the rest in order
Without(list, date) ==
  IF list = <<>> THEN <<>>
  ELSE (IF Head(list).date = date THEN <<>> ELSE <<Head(list)>>)
       \o Without(Tail(list), date)

\* the list with every record of s's date replaced by s
Replaced(list, s) ==
  [j \in 1..Len(list) |-> IF list[j].date = s.date THEN s ELSE list[j]]

\* a step of a handleFormSubmit invocation after its first await
Continuation ==
  /\ deliveries' # deliveries
  /\ Len(deliveries') = Len(deliveries)

Submitted == Len(deliveries') = Len(deliveries) + 1

\* C14: no store update is lost to an in-flight delivery. Every store event
\* (submit, update, delete, draft save, draft delete) is applied to the list as
\* the events handled before it left it, whatever deliveries are pending, so
\* the lists are the store operations applied in handling order; a delivery
\* completion or failure changes neither the submission list nor the draft
\* list, and nothing else changes them.
C14_NoLostUpdate ==
  [][/\ Continuation => (formData' = formData /\ drafts' = drafts)
     /\ Submitted =>
          formData' = Append(formData, deliveries'[Len(deliveries')].data)
     /\ handleSaveChanges =>
          formData' = Replaced(formData,
                               [formData[selectedFormIndex + 1] EXCEPT
                                  !.answers = editedAnswers,
                                  !.observations = editedObservations])
     /\ deleteSelected =>
          formData' = Without(formData, formData[selectedFormIndex + 1].date)
     /\ formData' # formData =>
          (Submitted \/ handleSaveChanges \/ deleteSelected)
     /\ drafts' # drafts =>
          \/ /\ Len(drafts') = Len(drafts) + 1
             /\ SubSeq(drafts', 1, Len(drafts)) = drafts
             /\ currentView = "form"
          \/ /\ currentView = "drafts"
             /\ \E i \in 1..Len(drafts) :
                  drafts' = Without(drafts, drafts[i].date)]_vars

\* C14 witness: a second submit made while the first delivery was in flight,
\* both submissions stored, the second one edited and saved while its own
\* delivery is still pending and after the first delivery has ended
C14_Witness ==
  /\ Len(deliveries) = 2
  /\ deliveries[1].promise = "fulfilled"
  /\ deliveries[2].promise = "pending"
  /\ Len(formData) = 2
  /\ formData[2].date = deliveries[2].data.date
  /\ formData[2].answers # deliveries[2].data.answers

RECURSIVE SubstituteAll(_, _)
\* the prompt with every placeholder token replaced by the submission's names
SubstituteAll(str, S) ==
  IF str = <<>> THEN <<>>
  ELSE (IF Head(str) = ProviderToken THEN S.providerName
        ELSE IF Head(str) = EntityToken THEN S.financialEntityName
        ELSE <<Head(str)>>)
       \o SubstituteAll(Tail(str), S)

\* the label of the first option whose value is the answer, '' if none
LabelOf(q, S) ==
  IF \E k \in 1..Len(q.options) :
       q.id \in DOMAIN S.answers /\ q.options[k].value = S.answers[q.id]
  THEN LET k == CHOOSE k \in 1..Len(q.options) :
                  /\ q.options[k].value = S.answers[q.id]
                  /\ \A m \in 1..(k - 1) : q.options[m].value # S.answers[q.id]
       IN q.options[k].text[language]
  ELSE ""

TableGenerated == tableData # <<>>

\* C10: the exported table has one row per question, in question order; the
\* row of q is (q's prompt in the current locale with every {providerName} and
\* {financialEntityName} replaced by the submission's names, the label of the
\* option whose value is the submission's answer for q or '', the submission's
\* observation for q or '').
C10_TableRows ==
  TableGenerated =>
    /\ Len(tableData) = Len(questions)
    /\ \A i \in 1..Len(questions) :
         tableData[i] =
           <<SubstituteAll(questions[i].text[language], Selected),
             LabelOf(questions[i], Selected),
             IF questions[i].id \in DOMAIN Selected.observations
             THEN Selected.observations[questions[i].id] ELSE "">>

====
